---- MODULE Spec2Model ----
(***************************************************************************)
(* The InfiniteScroll component of src/index.tsx as a state machine.       *)
(*                                                                         *)
(* The component is a function of its props plus three passive effects.    *)
(* A render commits the caller's state as the props, mounts the sentinels  *)
(* the flags ask for, and re-runs each effect whose dependency list        *)
(* changed (clean-up of the old watcher, then set-up of a new one whose    *)
(* callback closes over the props of that render).  Between renders the    *)
(* platform delivers visibility batches, size-change events and timer      *)
(* firings to the callbacks registered by the last set-up.                 *)
(*                                                                         *)
(* setIsLoading and the load callbacks belong to the caller: a call only   *)
(* changes the caller's state (callerLoading); the component sees the new  *)
(* value as props.isLoading at the next render.                            *)
(*                                                                         *)
(* scrollTop is the offset the component assigns; the clamping of the      *)
(* offset to the scrollable range by the platform is not modelled.         *)
(*                                                                         *)
(* The Search Highlighter rewrites the content of item elements through    *)
(* innerHTML.  An element's content is a sequence of nodes (a text run,     *)
(* inside a highlight span or not); an HTML string is a sequence of         *)
(* characters and span tags, and assigning it to innerHTML parses it.       *)
(*                                                                         *)
(* Spec is the whole component.  SpecTrigger, SpecReflow, SpecDisciplined,  *)
(* FairSpecSettle, SpecHighlight and SpecOffset are the same actions with   *)
(* the caller's renders and the layout restricted to what one subsystem     *)
(* reads.                                                                   *)
(***************************************************************************)
EXTENDS Integers, Sequences, FiniteSets

\* ------------------------------------------------------------------ bounds
MaxId == 1          \* message ids are 1..MaxId
MaxTimers == 2      \* settle timers pending at once
MaxFetch == 2       \* fetches outstanding at once (all directions)
MaxScroll == 1400   \* |scrollTop| the model follows
MaxText == 3        \* characters in the text of an item
MaxQuery == 1       \* characters in the search query

\* ------------------------------------------------------------- vocabulary
Ids == 1..MaxId
NoCursor == 0                       \* cursor: string | null  (null)
Cursors == Ids \cup {NoCursor}
TopId == "top-sentinel"
BottomId == "bottom-sentinel"
Markers == {TopId, BottomId}
MarkerOrder == <<TopId, BottomId>>  \* observe(top) precedes observe(bottom)
Directions == {"up", "middle", "down"}
Extents == {1000, 1400}             \* scrollHeight values the layout takes
ScrollStops == {0, -200}            \* offsets a user scroll or scrollIntoView lands on
NoObserver == [none |-> TRUE]
NoCalls == << >>
Letters == {"a", "A"}
Alphabet == Letters \cup {".", "<"}  \* "." is a RegExp wildcard, "<" opens an HTML tag
Texts == UNION {[1..n -> Alphabet] : n \in 0..MaxText}
Queries == UNION {[1..n -> Alphabet] : n \in 0..MaxQuery}
SpanOpen == "<span>"                \* <span class="${searchedMessageColor} text-text-white">
SpanClose == "</span>"
NoCleanup == [none |-> TRUE]

VARIABLES
  props,               \* the props of the last render
  callerLoading,       \* the caller's loading state (props.isLoading at next render)
  fetching,            \* caller: fetches outstanding per load callback
  scrollRefCurrent,    \* scrollRef.current is the container element
  scrollTop,           \* container.scrollTop
  scrollHeight,        \* container.scrollHeight
  prevScrollHeightRef, \* prevScrollHeightRef.current
  visible,             \* platform: marker currently intersects the root
  observer,            \* the live IntersectionObserver and its closure
  reported,            \* per target: what the live observer last reported
  resizeObserver,      \* the live ResizeObserver and its closure
  timers,              \* pending setTimeout callbacks of the middle branch
  search,              \* searchQuery and searchedMessageIds of the last render
  text,                \* caller: the text each item is rendered with
  content,             \* the nodes inside each rendered item element
  highlighter,         \* the clean-up registered by the Search Highlighter
  centred,             \* the item scrollIntoView left at the viewport centre
  firedInView,         \* history: marker's callback ran since it came into view
  lastExtent,          \* history: extent read by the last size-change event
  ev                   \* history: the last step taken

vars == <<props, callerLoading, fetching, scrollRefCurrent, scrollTop,
          scrollHeight, prevScrollHeightRef, visible, observer, reported,
          resizeObserver, timers, search, text, content, highlighter,
          centred, firedInView, lastExtent, ev>>

searchVars == <<search, text, content, highlighter>>

\* The record of a step: its kind ("batch", "resize", "timer", "render",
\* "cleanup" or "other"); for a batch its entries, the load
\* callbacks each entry called and the caller's loading state at each call;
\* for a size-change event whether the container was mounted, the offset
\* before it, the extent recorded by the size-change event before it and
\* whether the size watcher was created again in the step before; the
\* arguments of the setIsLoading calls the component made (set); for a render
\* or clean-up the watchers it tore down (disposed), whether the Search
\* Highlighter effect ran again (pass) and the content left by the revert,
\* from which the highlighting pass started (before).
Ev(kind) == [kind |-> kind, entries |-> << >>, made |-> << >>,
             flags |-> << >>, mounted |-> scrollRefCurrent, top |-> 0, prev |-> 0,
             set |-> << >>, recreated |-> FALSE, disposed |-> {},
             pass |-> FALSE, before |-> << >>]
Other == [kind |-> "other", entries |-> << >>, made |-> << >>,
          flags |-> << >>, mounted |-> TRUE, top |-> 0, prev |-> 0,
          set |-> << >>, recreated |-> FALSE, disposed |-> {},
          pass |-> FALSE, before |-> << >>]

\* ------------------------------------------------------------ the caller
\* What a load callback does on the caller's side: the fetch starts and the
\* caller asks for the loading flag to become true.
StartFetches(f, calls) ==
  [cb \in DOMAIN f |->
     f[cb] + Cardinality({i \in 1..Len(calls) : calls[i] = cb})]

\* The caller's loading state as each entry of a batch is handled: the state
\* before the batch, and true once an earlier entry has called a callback.
FlagAtEntries(made, flag) ==
  [i \in 1..Len(made) |-> flag \/ \E j \in 1..(i - 1) : made[j] # << >>]

TotalFetching(f) == f["loadMoreTop"] + f["loadMoreBottom"]

\* ------------------------------------------------- render: the sentinels
\* index.tsx 195-205: a sentinel is rendered iff its flag is true.
MountedMarkers(p, current) ==
  {m \in Markers :
     /\ current
     /\ \/ m = TopId /\ p.isTopFetchMore
        \/ m = BottomId /\ p.isBottomFetchMore}

\* ------------------------------------------------ the Pagination Trigger
EntryCallAnyEntry(entry, c, current) ==
  IF ~c.isLoading /\ current
  THEN IF entry.target = TopId /\ c.isTopFetchMore
       THEN <<"loadMoreTop">>
       ELSE IF entry.target = BottomId /\ c.isBottomFetchMore
            THEN <<"loadMoreBottom">>
            ELSE NoCalls
  ELSE NoCalls

\* index.tsx 55-63: what one entry of a batch makes the callback call.
\* c is the closure (the props of the render that registered the observer),
\* current is scrollRef.current at the time of the call.
EntryCall(entry, c, current) ==
  IF entry.isIntersecting /\ ~c.isLoading /\ current
  THEN IF entry.target = TopId /\ c.isTopFetchMore
       THEN <<"loadMoreTop">>
       ELSE IF entry.target = BottomId /\ c.isBottomFetchMore
            THEN <<"loadMoreBottom">>
            ELSE NoCalls
  ELSE NoCalls

\* index.tsx 53-66: entries.forEach over the batch: the calls each entry
\* makes, in the order of the entries.
ObserverCallback(entries, c, current) ==
  [i \in 1..Len(entries) |-> EntryCall(entries[i], c, current)]

\* The calls of a batch one after the other.
RECURSIVE Flat(_)
Flat(made) == IF made = << >> THEN NoCalls ELSE Head(made) \o Flat(Tail(made))

\* index.tsx 74-80: the observer created by the effect, closing over the
\* props of this render and observing the sentinels that are mounted.
NewObserver(p, current) ==
  [isLoading |-> p.isLoading,
   isTopFetchMore |-> p.isTopFetchMore,
   isBottomFetchMore |-> p.isBottomFetchMore,
   targets |-> MountedMarkers(p, current)]

ObserverDepsWithoutLoading(old, new, newMessages, newCallbacks) ==
  \/ newMessages
  \/ newCallbacks
  \/ old.isTopFetchMore # new.isTopFetchMore
  \/ old.isBottomFetchMore # new.isBottomFetchMore

ObserverDepsWithoutFlags(old, new, newMessages, newCallbacks) ==
  \/ newMessages
  \/ old.isLoading # new.isLoading
  \/ newCallbacks

\* index.tsx 85-95: the effect's dependency list.  newMessages and
\* newCallbacks say that the render passed a new messages array, or new
\* loadMoreTop / loadMoreBottom functions.
ObserverDepsChanged(old, new, newMessages, newCallbacks) ==
  \/ newMessages
  \/ old.isLoading # new.isLoading
  \/ newCallbacks
  \/ old.isTopFetchMore # new.isTopFetchMore
  \/ old.isBottomFetchMore # new.isBottomFetchMore

\* The platform: the entries the live observer has to report, in the order
\* the targets were observed.  A target is reported when first observed and
\* whenever its intersection state differs from the last one reported.
HasEntry(m) ==
  /\ m \in observer.targets
  /\ \/ reported[m] = "none"
     \/ (reported[m] = "in") # visible[m]

PendingEntries ==
  LET ms == SelectSeq(MarkerOrder, HasEntry)
  IN  [i \in 1..Len(ms) |-> [target |-> ms[i], isIntersecting |-> visible[ms[i]]]]

CallbackOf(m) == IF m = TopId THEN "loadMoreTop" ELSE "loadMoreBottom"

Called(calls, m) == \E i \in 1..Len(calls) : calls[i] = CallbackOf(m)

\* A visibility batch is delivered to observerCallback.
IntersectionBatch ==
  /\ observer # NoObserver
  /\ PendingEntries # << >>
  /\ LET entries == PendingEntries
         made == ObserverCallback(entries, observer, scrollRefCurrent)
         calls == Flat(made)
     IN  /\ TotalFetching(fetching) + Len(calls) <= MaxFetch
         /\ fetching' = StartFetches(fetching, calls)
         /\ callerLoading' = IF calls # NoCalls THEN TRUE ELSE callerLoading
         /\ reported' = [m \in Markers |->
                           IF HasEntry(m)
                           THEN IF visible[m] THEN "in" ELSE "out"
                           ELSE reported[m]]
         /\ firedInView' = [m \in Markers |->
                              firedInView[m] \/ Called(calls, m)]
         /\ ev' = [Ev("batch") EXCEPT !.entries = entries, !.made = made,
                     !.flags = FlagAtEntries(made, callerLoading)]
  /\ UNCHANGED <<props, scrollRefCurrent, scrollTop, scrollHeight,
                 prevScrollHeightRef, visible, observer, resizeObserver,
                 timers, centred, lastExtent>>
  /\ UNCHANGED searchVars

\* ------------------------------------------------- the Reflow Compensator
\* index.tsx 101: scrollHeightDiff.
ScrollHeightDiff(newScrollHeight, prev) == newScrollHeight - prev

UpScrollTopAssigned(top, diff) == diff

\* index.tsx 103: scrollTop += scrollHeightDiff.
UpScrollTop(top, diff) == top + diff

DownScrollTopSubtracted(top, diff) == top - diff

\* index.tsx 105: scrollTop = -scrollHeightDiff.
DownScrollTop(top, diff) == 0 - diff

TargetMessageAnyItem(cur, items) == items # {}

\* index.tsx 107-111: querySelector finds the element of the cursor item
\* among the rendered items (a null cursor names no item).
TargetMessage(cur, items) == cur \in items

RecordedHeightWhenAdjusted(dir, found, newScrollHeight, prev) ==
  IF dir = "middle" /\ ~found THEN prev ELSE newScrollHeight

\* index.tsx 121: the value stored in prevScrollHeightRef by one event.
RecordedHeight(dir, found, newScrollHeight, prev) == newScrollHeight

SettleFlagKept == TRUE

\* index.tsx 117: the argument of setIsLoading in the timer callback.
SettleFlag == FALSE

\* index.tsx 98, 125-127: the observer created by the effect, closing over
\* direction and cursor and observing the container if it is mounted.
NewResizeObserver(p, current) ==
  [direction |-> p.direction, cursor |-> p.cursor, observing |-> current]

\* index.tsx 129-131: the clean-up disconnects the observer and nothing
\* else: the pending timers and the snapshot held by the ref (index.tsx 50)
\* are what they were.
PendingCancelled(n) == 0

PendingAfterCleanup(n) == n

SnapshotReset(prev) == 0

SnapshotAfterCleanup(prev) == prev

ContainerAssumed(current) == TRUE

\* index.tsx 99: if (scrollRef.current).
ContainerPresent(current) == current

ResizeDepsWithoutCursor(old, new, newMessages) ==
  \/ newMessages
  \/ old.direction # new.direction

\* index.tsx 132: the effect's dependency list (setIsLoading and scrollRef
\* keep their identity).
ResizeDepsChanged(old, new, newMessages) ==
  \/ newMessages
  \/ old.cursor # new.cursor
  \/ old.direction # new.direction

\* index.tsx 98-123: one size-change event handled by the ResizeObserver
\* callback.  c is the closure of the live observer.
SizeChange ==
  /\ resizeObserver # NoObserver
  /\ resizeObserver.observing
  /\ LET c == resizeObserver
         diff == ScrollHeightDiff(scrollHeight, prevScrollHeightRef)
         found == TargetMessage(c.cursor, props.messages)
     IN  IF ContainerPresent(scrollRefCurrent)
         THEN /\ \/ /\ c.direction = "up"
                    /\ scrollTop' = UpScrollTop(scrollTop, diff)
                    /\ centred' = IF scrollTop' = scrollTop THEN centred ELSE NoCursor
                    /\ UNCHANGED timers
                 \/ /\ c.direction = "down"
                    /\ scrollTop' = DownScrollTop(scrollTop, diff)
                    /\ centred' = IF scrollTop' = scrollTop THEN centred ELSE NoCursor
                    /\ UNCHANGED timers
                 \/ /\ c.direction = "middle"
                    /\ found
                    /\ timers < MaxTimers
                    /\ scrollTop' \in ScrollStops
                    /\ centred' = c.cursor
                    /\ timers' = timers + 1
                 \/ /\ c.direction = "middle"
                    /\ ~found
                    /\ UNCHANGED <<scrollTop, centred, timers>>
              /\ prevScrollHeightRef' =
                   RecordedHeight(c.direction, found, scrollHeight, prevScrollHeightRef)
         ELSE UNCHANGED <<scrollTop, centred, timers, prevScrollHeightRef>>
  /\ scrollTop' \in (0 - MaxScroll)..MaxScroll
  /\ lastExtent' = IF scrollRefCurrent THEN scrollHeight ELSE lastExtent
  /\ ev' = [Ev("resize") EXCEPT !.top = scrollTop, !.prev = lastExtent,
               !.recreated = (ev.kind = "render" /\ "ro" \in ev.disposed)]
  /\ UNCHANGED <<props, callerLoading, fetching, scrollRefCurrent, scrollHeight,
                 visible, observer, reported, resizeObserver, firedInView>>
  /\ UNCHANGED searchVars

SettleTimerScrolling ==
  /\ timers > 0
  /\ timers' = timers - 1
  /\ callerLoading' = SettleFlag
  /\ scrollTop' = 0
  /\ ev' = [Ev("timer") EXCEPT !.set = <<SettleFlag>>]
  /\ UNCHANGED <<props, fetching, scrollRefCurrent, scrollHeight,
                 prevScrollHeightRef, visible, observer, reported,
                 resizeObserver, centred, firedInView, lastExtent>>
  /\ UNCHANGED searchVars

\* index.tsx 116-118: a settle timer fires.
SettleTimer ==
  /\ timers > 0
  /\ timers' = timers - 1
  /\ callerLoading' = SettleFlag
  /\ ev' = [Ev("timer") EXCEPT !.set = <<SettleFlag>>]
  /\ UNCHANGED <<props, fetching, scrollRefCurrent, scrollTop, scrollHeight,
                 prevScrollHeightRef, visible, observer, reported,
                 resizeObserver, centred, firedInView, lastExtent>>
  /\ UNCHANGED searchVars

\* -------------------------------------------------- the Search Highlighter
\* String.prototype.toLowerCase on the model's alphabet.
LowerChar(ch) == IF ch = "A" THEN "a" ELSE ch

ToLowerCase(s) == [i \in 1..Len(s) |-> LowerChar(s[i])]

\* The text of a node sequence (Node.textContent).
RECURSIVE TextContent(_)
TextContent(nodes) ==
  IF nodes = << >> THEN << >> ELSE Head(nodes).t \o TextContent(Tail(nodes))

\* The content React renders for an item: one text node, none for no text.
PlainText(s) == IF s = << >> THEN << >> ELSE <<[t |-> s, depth |-> 0]>>

\* The parse of an HTML string assigned to innerHTML (index.tsx 161, 172):
\* a span tag opens or closes a span element; "<" followed by a letter opens
\* a start tag, whose name and attributes run to the next ">" (the one that
\* ends the next span tag) or are dropped with the rest at the end of the
\* string; every other character is text.  A node records its text and how
\* many span elements it is inside.
RECURSIVE ParseFrom(_, _, _, _, _)
ParseFrom(html, i, nodes, run, depth) ==
  LET flushed == IF run = << >> THEN nodes
                 ELSE Append(nodes, [t |-> run, depth |-> depth])
  IN  IF i > Len(html) THEN flushed
      ELSE IF html[i] = SpanOpen
           THEN ParseFrom(html, i + 1, flushed, << >>, depth + 1)
      ELSE IF html[i] = SpanClose
           THEN ParseFrom(html, i + 1, flushed, << >>,
                          IF depth > 0 THEN depth - 1 ELSE 0)
      ELSE IF html[i] = "<" /\ i < Len(html) /\ html[i + 1] \in Letters
           THEN LET ends == {j \in (i + 1)..Len(html) :
                               html[j] \in {SpanOpen, SpanClose}}
                IN  IF ends = {} THEN flushed
                    ELSE ParseFrom(html,
                                   1 + CHOOSE j \in ends : \A k \in ends : j <= k,
                                   flushed, << >>, depth)
      ELSE ParseFrom(html, i + 1, nodes, Append(run, html[i]), depth)

InnerHTML(html) == ParseFrom(html, 1, << >>, << >>, 0)

\* index.tsx 149: originalText.toLowerCase().includes(searchQuery.toLowerCase()).
Includes(s, q) ==
  \E i \in 1..(Len(s) - Len(q) + 1) :
    SubSeq(ToLowerCase(s), i, i + Len(q) - 1) = ToLowerCase(q)

\* index.tsx 151: new RegExp(`(${searchQuery})`, "gi") matches at position i:
\* the query is the pattern as it stands, so "." matches any character and
\* every other character of the alphabet matches itself in either case.
RegExpMatchAt(s, i, q) ==
  /\ i + Len(q) - 1 <= Len(s)
  /\ \A j \in 1..Len(q) :
       q[j] = "." \/ LowerChar(s[i + j - 1]) = LowerChar(q[j])

\* index.tsx 150-152: String.prototype.split with a capturing pattern: the
\* segments between the matches alternate with the matched substrings.
\* p is where the current segment starts, i the position tried next.
RECURSIVE SplitFrom(_, _, _, _, _)
SplitFrom(s, q, p, i, parts) ==
  IF i > Len(s) THEN Append(parts, SubSeq(s, p, Len(s)))
  ELSE IF RegExpMatchAt(s, i, q)
       THEN SplitFrom(s, q, i + Len(q), i + Len(q),
                      parts \o <<SubSeq(s, p, i - 1), SubSeq(s, i, i + Len(q) - 1)>>)
       ELSE SplitFrom(s, q, p, i + 1, parts)

Split(s, q) == SplitFrom(s, q, 1, 1, << >>)

\* index.tsx 153-159: parts.map(...).join(""): a part equal to the query in
\* lower case is put between the span tags.
RECURSIVE HighlightedContent(_, _)
HighlightedContent(parts, q) ==
  IF parts = << >> THEN << >>
  ELSE (IF ToLowerCase(Head(parts)) = ToLowerCase(q)
        THEN <<SpanOpen>> \o Head(parts) \o <<SpanClose>>
        ELSE Head(parts))
       \o HighlightedContent(Tail(parts), q)

\* index.tsx 136-137: the effect returns before doing anything.
EarlyReturnIgnoringIds(q, current, ids) == q = << >> \/ ~current

EarlyReturn(q, current, ids) == q = << >> \/ ~current \/ ids = {}

\* index.tsx 146-162: the pass on one element found by querySelector.
HighlightElement(nodes, q) ==
  IF TextContent(nodes) # << >> /\ Includes(TextContent(nodes), q)
  THEN InnerHTML(HighlightedContent(Split(TextContent(nodes), q), q))
  ELSE nodes

\* index.tsx 171-173: the revert of one element found by querySelector.
RevertElement(nodes) ==
  IF TextContent(nodes) # << >> THEN InnerHTML(TextContent(nodes)) ELSE nodes

\* index.tsx 141-164: searchedMessageIds.forEach over the rendered items.
ApplyPass(cont, items, s) ==
  [id \in Ids |->
     IF id \in s.searchedMessageIds \cap items
     THEN HighlightElement(cont[id], s.searchQuery)
     ELSE cont[id]]

\* index.tsx 166-175: the clean-up, over the ids of the closure kept at
\* set-up.
RevertPass(cont, items, cleanup) ==
  [id \in Ids |->
     IF cleanup # NoCleanup /\ id \in cleanup.searchedMessageIds \cap items
     THEN RevertElement(cont[id])
     ELSE cont[id]]

\* index.tsx 135-182: set-up of the effect: the content it leaves and the
\* clean-up it registers.
HighlighterSetup(cont, items, s, current) ==
  IF EarlyReturn(s.searchQuery, current, s.searchedMessageIds)
  THEN [content |-> cont, cleanup |-> NoCleanup]
  ELSE [content |-> ApplyPass(cont, items, s),
        cleanup |-> [searchedMessageIds |-> s.searchedMessageIds]]

\* index.tsx 200: the item elements after React has committed the
\* children: a new item shows its text, an item that stays keeps its nodes.
CommittedContent(cont, before, after) ==
  [id \in Ids |->
     IF id \notin after THEN << >>
     ELSE IF id \in before THEN cont[id] ELSE PlainText(text[id])]

\* ------------------------------------------------------------- rendering
\* The visibility of the markers after a layout step: an unmounted marker
\* intersects nothing; a marker that stays mounted keeps its state unless
\* the layout moved.
Visibilities(mountedNow, mountedBefore, moved) ==
  {v \in [Markers -> BOOLEAN] :
     \A m \in Markers :
       /\ m \notin mountedNow => ~v[m]
       /\ (m \in mountedNow /\ m \in mountedBefore /\ ~moved) => v[m] = visible[m]}

\* The renders the caller can cause: each commits the caller's loading state
\* and changes at most one other prop.  TriggerUpdates change what only the
\* Pagination Trigger depends on, ReflowUpdates what the Reflow Compensator
\* depends on.
Update(p, nm, nc) == [new |-> p, newMessages |-> nm, newCallbacks |-> nc]

Committed == [props EXCEPT !.isLoading = callerLoading]

TriggerUpdates ==
  {Update(Committed, FALSE, FALSE) : x \in {y \in {1} : Committed # props}}
  \cup {Update(Committed, FALSE, TRUE), Update(Committed, TRUE, FALSE)}
  \cup {Update([Committed EXCEPT !.isTopFetchMore = ~props.isTopFetchMore], FALSE, FALSE)}
  \cup {Update([Committed EXCEPT !.isBottomFetchMore = ~props.isBottomFetchMore], FALSE, FALSE)}

ReflowUpdates ==
  {Update([Committed EXCEPT !.messages = ms], TRUE, FALSE) : ms \in SUBSET Ids}
  \cup {Update([Committed EXCEPT !.direction = d], FALSE, FALSE) :
          d \in Directions \ {props.direction}}
  \cup {Update([Committed EXCEPT !.cursor = k], FALSE, FALSE) :
          k \in Cursors \ {props.cursor}}

\* Renders in which the caller passes another search query, or an array of
\* matched ids (a new array, whether its elements changed or not).
SearchUpdates(queries) ==
  {[new |-> Committed, newMessages |-> FALSE, newCallbacks |-> FALSE,
    search |-> [search EXCEPT !.searchQuery = q]] :
     q \in queries \ {search.searchQuery}}
  \cup {[new |-> Committed, newMessages |-> FALSE, newCallbacks |-> FALSE,
          search |-> [search EXCEPT !.searchedMessageIds = ids]] :
           ids \in SUBSET Ids}

\* index.tsx 176-182: the Search Highlighter's dependency list
\* (searchedMessageColor and scrollRef stay as they are).
HighlighterDepsChanged(newMessages, newSearch) == newMessages \/ newSearch

\* index.tsx 27-208: a re-render of the mounted component: the props are
\* committed, the sentinels are mounted as the flags say, and each effect
\* whose dependencies changed is cleaned up and set up again.  updates are
\* the renders the caller causes, extents the heights new content can take.
RenderWith(updates, extents) ==
  /\ scrollRefCurrent
  /\ observer # NoObserver
  /\ \E u \in updates :
       LET new == u.new
           ioChanged == ObserverDepsChanged(props, new, u.newMessages, u.newCallbacks)
           roChanged == ResizeDepsChanged(props, new, u.newMessages)
           newSearch == "search" \in DOMAIN u
           hlChanged == HighlighterDepsChanged(u.newMessages, newSearch)
           committed == CommittedContent(content, props.messages, new.messages)
           reverted == RevertPass(committed, new.messages, highlighter)
           setup == HighlighterSetup(reverted, new.messages, search', TRUE)
       IN  /\ props' = new
           /\ search' = IF newSearch THEN u.search ELSE search
           /\ content' = IF hlChanged THEN setup.content ELSE committed
           /\ highlighter' = IF hlChanged THEN setup.cleanup ELSE highlighter
           /\ timers' = IF roChanged THEN PendingAfterCleanup(timers) ELSE timers
           /\ prevScrollHeightRef' =
                IF roChanged THEN SnapshotAfterCleanup(prevScrollHeightRef)
                ELSE prevScrollHeightRef
           /\ ev' = [Ev("render") EXCEPT
                       !.disposed = {w \in {"ro", "hl"} :
                                       \/ w = "ro" /\ roChanged
                                       \/ w = "hl" /\ hlChanged
                                                   /\ highlighter # NoCleanup},
                       !.pass = hlChanged,
                       !.before = IF hlChanged THEN reverted ELSE << >>]
           /\ observer' = IF ioChanged THEN NewObserver(new, TRUE) ELSE observer
           /\ reported' = IF ioChanged THEN [m \in Markers |-> "none"] ELSE reported
           /\ resizeObserver' =
                IF roChanged THEN NewResizeObserver(new, TRUE) ELSE resizeObserver
           /\ scrollHeight' \in IF u.newMessages THEN extents ELSE {scrollHeight}
           /\ visible' \in Visibilities(MountedMarkers(new, TRUE),
                                        MountedMarkers(props, TRUE), u.newMessages)
           /\ firedInView' = [m \in Markers |-> firedInView[m] /\ visible'[m]]
           /\ centred' = IF u.newMessages THEN NoCursor ELSE centred
  /\ UNCHANGED <<callerLoading, fetching, scrollRefCurrent, scrollTop,
                 text, lastExtent>>

Render ==
  RenderWith(TriggerUpdates \cup ReflowUpdates \cup SearchUpdates(Queries), Extents)

\* The component is removed: the container and the sentinels leave the
\* document and scrollRef.current becomes null.  The effects' clean-ups run
\* afterwards (EffectCleanup).
Unmount ==
  /\ scrollRefCurrent
  /\ scrollRefCurrent' = FALSE
  /\ visible' = [m \in Markers |-> FALSE]
  /\ firedInView' = [m \in Markers |-> FALSE]
  /\ centred' = NoCursor
  /\ ev' = Other
  /\ UNCHANGED <<props, callerLoading, fetching, scrollTop, scrollHeight,
                 prevScrollHeightRef, observer, reported, resizeObserver, timers,
                 lastExtent>>
  /\ UNCHANGED searchVars

\* index.tsx 82-84, 129-131, 166-175: the clean-ups of the unmounted
\* component.  The highlighter's revert works on the container element it
\* kept at set-up.
EffectCleanup ==
  /\ ~scrollRefCurrent
  /\ observer # NoObserver
  /\ observer' = NoObserver
  /\ resizeObserver' = NoObserver
  /\ timers' = PendingAfterCleanup(timers)
  /\ prevScrollHeightRef' = SnapshotAfterCleanup(prevScrollHeightRef)
  /\ content' = RevertPass(content, props.messages, highlighter)
  /\ highlighter' = NoCleanup
  /\ ev' = [Ev("cleanup") EXCEPT
              !.disposed = {w \in {"ro", "hl"} :
                              w = "hl" => highlighter # NoCleanup},
              !.before = content']
  /\ UNCHANGED <<props, callerLoading, fetching, scrollRefCurrent, scrollTop,
                 scrollHeight, visible, reported, search, text,
                 centred, firedInView, lastExtent>>

\* ------------------------------------------------------- the environment
\* The user scrolls: the offset moves to one of stops and the markers in
\* view change (moved) or stay as they are.
ScrollWith(stops, moved) ==
  /\ scrollRefCurrent
  /\ \E s \in stops :
     \E v \in Visibilities(MountedMarkers(props, TRUE),
                           MountedMarkers(props, TRUE), moved) :
       /\ s # scrollTop \/ v # visible
       /\ scrollTop' = s
       /\ visible' = v
       /\ firedInView' = [m \in Markers |-> firedInView[m] /\ v[m]]
       /\ centred' = IF s = scrollTop THEN centred ELSE NoCursor
  /\ ev' = Other
  /\ UNCHANGED <<props, callerLoading, fetching, scrollRefCurrent, scrollHeight,
                 prevScrollHeightRef, observer, reported, resizeObserver, timers,
                 lastExtent>>
  /\ UNCHANGED searchVars

UserScroll == ScrollWith(ScrollStops, TRUE)

\* A fetch started by a load callback resolves and the caller releases the
\* loading flag.
FetchResolve ==
  /\ \E cb \in DOMAIN fetching :
       /\ fetching[cb] > 0
       /\ fetching' = [fetching EXCEPT ![cb] = @ - 1]
  /\ callerLoading' = FALSE
  /\ ev' = Other
  /\ UNCHANGED <<props, scrollRefCurrent, scrollTop, scrollHeight,
                 prevScrollHeightRef, visible, observer, reported,
                 resizeObserver, timers, centred, firedInView, lastExtent>>
  /\ UNCHANGED searchVars

\* The caller sets the loading flag for a reason of its own.
CallerSetLoading ==
  /\ callerLoading' = ~callerLoading
  /\ ev' = Other
  /\ UNCHANGED <<props, fetching, scrollRefCurrent, scrollTop, scrollHeight,
                 prevScrollHeightRef, visible, observer, reported,
                 resizeObserver, timers, centred, firedInView, lastExtent>>
  /\ UNCHANGED searchVars

\* ------------------------------------------------------- specifications
PropsSet ==
  [isLoading : BOOLEAN, isTopFetchMore : BOOLEAN, isBottomFetchMore : BOOLEAN,
   direction : Directions, cursor : Cursors, messages : SUBSET Ids]

SearchSet == [searchQuery : Queries, searchedMessageIds : SUBSET Ids]

\* No search: the caller passes no query and no matched ids, and the items
\* render no text.
NoSearch ==
  /\ search = [searchQuery |-> << >>, searchedMessageIds |-> {}]
  /\ text = [id \in Ids |-> << >>]

\* The state after the first render and its effects.
Init ==
  /\ props \in PropsSet
  /\ callerLoading = props.isLoading
  /\ fetching = [cb \in {"loadMoreTop", "loadMoreBottom"} |-> 0]
  /\ scrollRefCurrent = TRUE
  /\ scrollTop = 0
  /\ scrollHeight \in Extents
  /\ prevScrollHeightRef = 0
  /\ visible \in {v \in [Markers -> BOOLEAN] :
                    \A m \in Markers : m \notin MountedMarkers(props, TRUE) => ~v[m]}
  /\ observer = NewObserver(props, TRUE)
  /\ reported = [m \in Markers |-> "none"]
  /\ resizeObserver = NewResizeObserver(props, TRUE)
  /\ timers = 0
  /\ search \in SearchSet
  /\ text \in [Ids -> Texts]
  /\ LET setup == HighlighterSetup(CommittedContent([id \in Ids |-> << >>],
                                                    {}, props.messages),
                                   props.messages, search, TRUE)
     IN  /\ content = setup.content
         /\ highlighter = setup.cleanup
  /\ centred = NoCursor
  /\ firedInView = [m \in Markers |-> FALSE]
  /\ lastExtent = 0
  /\ ev = Other

Next ==
  \/ IntersectionBatch
  \/ SizeChange
  \/ SettleTimer
  \/ Render
  \/ Unmount
  \/ EffectCleanup
  \/ UserScroll
  \/ FetchResolve
  \/ CallerSetLoading

\* The whole component with any caller.
Spec == Init /\ [][Next]_vars

\* The Pagination Trigger with any caller.  No size-change event is
\* delivered, so the layout and the props only the Reflow Compensator reads
\* stay as they are; the release of the loading flag by a settle timer is one
\* of the caller-side flag updates (CallerSetLoading).
InitTrigger ==
  /\ NoSearch
  /\ Init
  /\ props.direction = "up"
  /\ props.cursor = NoCursor
  /\ props.messages = {}
  /\ \A h \in Extents : scrollHeight <= h

RenderTrigger == RenderWith(TriggerUpdates, {scrollHeight})

ScrollMarkers == ScrollWith({scrollTop}, TRUE)

NextTrigger ==
  \/ IntersectionBatch
  \/ RenderTrigger
  \/ Unmount
  \/ EffectCleanup
  \/ ScrollMarkers
  \/ FetchResolve
  \/ CallerSetLoading

SpecTrigger == InitTrigger /\ [][NextTrigger]_vars

\* The Reflow Compensator with any caller.  No visibility batch is
\* delivered: the sentinels are not rendered and no fetch starts.
InitReflow ==
  /\ NoSearch
  /\ Init
  /\ ~props.isTopFetchMore
  /\ ~props.isBottomFetchMore

RenderReflow == RenderWith(ReflowUpdates, Extents)

ScrollOffset == ScrollWith(ScrollStops, FALSE)

NextReflow ==
  \/ SizeChange
  \/ SettleTimer
  \/ RenderReflow
  \/ Unmount
  \/ EffectCleanup
  \/ ScrollOffset
  \/ CallerSetLoading

SpecReflow == InitReflow /\ [][NextReflow]_vars

\* The whole component with a caller that sets the loading flag only in the
\* load callbacks (true) and when a fetch resolves (false).  The size-change
\* events are those of direction "middle", the only ones that reach the
\* loading flag (through the settle timer).
InitDisciplined ==
  /\ NoSearch
  /\ Init
  /\ props.direction = "middle"
  /\ \A h \in Extents : scrollHeight <= h

CursorUpdates ==
  {Update([Committed EXCEPT !.cursor = k], FALSE, FALSE) :
     k \in Cursors \ {props.cursor}}

RenderDisciplined ==
  RenderWith(TriggerUpdates \cup CursorUpdates, {scrollHeight})

NextDisciplined ==
  \/ IntersectionBatch
  \/ SizeChange
  \/ SettleTimer
  \/ RenderDisciplined
  \/ Unmount
  \/ EffectCleanup
  \/ UserScroll
  \/ FetchResolve

SpecDisciplined == InitDisciplined /\ [][NextDisciplined]_vars

\* The Reflow Compensator with content whose extent stays as it is, and the
\* event loop running the setTimeout callbacks: a pending settle timer fires.
RenderSettle == RenderWith(ReflowUpdates, {scrollHeight})

NextSettle ==
  \/ SizeChange
  \/ SettleTimer
  \/ RenderSettle
  \/ Unmount
  \/ EffectCleanup
  \/ ScrollOffset
  \/ CallerSetLoading

FairSpecSettle == InitReflow /\ [][NextSettle]_vars /\ WF_vars(SettleTimer)

\* The Search Highlighter with any caller.  The sentinels are not rendered
\* and the layout stays as it is; the first item carries any text and the
\* other items are rendered without text.
InitHighlight ==
  /\ text \in {f \in [Ids -> Texts] : \A id \in Ids : id # 1 => f[id] = << >>}
  /\ props \in {p \in PropsSet :
                  /\ ~p.isLoading
                  /\ ~p.isTopFetchMore
                  /\ ~p.isBottomFetchMore
                  /\ p.direction = "up"
                  /\ p.cursor = NoCursor}
  /\ scrollHeight \in {h \in Extents : \A g \in Extents : h <= g}
  /\ Init

ItemUpdates ==
  {Update([Committed EXCEPT !.messages = ms], TRUE, FALSE) : ms \in SUBSET Ids}

RenderHighlight ==
  RenderWith(SearchUpdates(Queries) \cup ItemUpdates, {scrollHeight})

NextHighlight ==
  \/ RenderHighlight
  \/ Unmount
  \/ EffectCleanup

SpecHighlight == InitHighlight /\ [][NextHighlight]_vars

\* The three subsystems together, with a caller who also searches: the top
\* sentinel is rendered, every item is rendered and shows the text "a", and
\* the query is empty or one letter.
InitOffset ==
  /\ text = [id \in Ids |-> <<"a">>]
  /\ props \in {p \in PropsSet :
                  /\ p.isTopFetchMore
                  /\ ~p.isBottomFetchMore
                  /\ p.messages = Ids}
  /\ search \in {s \in SearchSet : s.searchQuery \in {<< >>, <<"A">>}}
  /\ scrollHeight \in {h \in Extents : \A g \in Extents : h <= g}
  /\ Init

CommitUpdates ==
  {Update(Committed, FALSE, FALSE) : x \in {y \in {1} : Committed # props}}

RenderOffset ==
  RenderWith(CommitUpdates \cup CursorUpdates \cup SearchUpdates({<< >>, <<"A">>}),
             {scrollHeight})

NextOffset ==
  \/ IntersectionBatch
  \/ SizeChange
  \/ SettleTimer
  \/ RenderOffset
  \/ Unmount
  \/ EffectCleanup

SpecOffset == InitOffset /\ [][NextOffset]_vars

\* ================================================================ claims
Calls == Flat(ev.made)

IsBatch == ev.kind = "batch"

\* A size-change event handled with the container mounted.
IsResize == ev.kind = "resize" /\ ev.mounted

\* C1: while the loading flag (isLoading) is true no visibility batch makes
\* the Pagination Trigger call loadMoreTop or loadMoreBottom.
C1_NoLoadWhileLoading ==
  (IsBatch /\ props.isLoading) => Calls = NoCalls

\* A marker whose callback was called has stayed in view; the flag became
\* true, the watcher was registered again and reported the marker as
\* intersecting, and nothing was called.
C1_Witness ==
  /\ IsBatch
  /\ props.isLoading
  /\ ev.mounted
  /\ \E i \in 1..Len(ev.entries) :
       /\ ev.entries[i].isIntersecting
       /\ firedInView[ev.entries[i].target]
  /\ Calls = NoCalls

\* C2: with a caller that sets the loading flag in the load callbacks and
\* releases it when the fetch resolves, at most one pagination fetch is
\* outstanding at any time.
C2_AtMostOneFetch == TotalFetching(fetching) <= 1

\* C3: an intersecting entry of the top marker with isTopFetchMore true and
\* the loading flag false calls loadMoreTop, and symmetrically for the bottom
\* marker; an entry that is not intersecting calls nothing; a marker never
\* calls the other direction's callback.
C3_EntryDispatch ==
  IsBatch =>
    \A i \in 1..Len(ev.entries) :
      LET e == ev.entries[i]
          made == ev.made[i]
      IN  /\ (e.isIntersecting /\ e.target = TopId /\ props.isTopFetchMore
                /\ ~props.isLoading) => made = <<"loadMoreTop">>
          /\ (e.isIntersecting /\ e.target = BottomId /\ props.isBottomFetchMore
                /\ ~props.isLoading) => made = <<"loadMoreBottom">>
          /\ ~e.isIntersecting => made = NoCalls
          /\ e.target = TopId => made \in {NoCalls, <<"loadMoreTop">>}
          /\ e.target = BottomId => made \in {NoCalls, <<"loadMoreBottom">>}

\* One batch held an intersecting top entry that called loadMoreTop and a
\* bottom entry that was not intersecting and called nothing.
C3_Witness ==
  /\ IsBatch
  /\ Len(ev.entries) = 2
  /\ ev.entries[1].isIntersecting
  /\ ~ev.entries[2].isIntersecting
  /\ ev.made = << <<"loadMoreTop">>, NoCalls >>

\* C4: while a marker stays continuously in view its load callback is called
\* at most once, also when the visibility watcher is torn down and created
\* again: no batch calls the callback of a marker whose callback was already
\* called since it came into view.
C4_OncePerTransition ==
  [][\A m \in Markers :
       (ev'.kind = "batch" /\ firedInView[m]) => ~Called(Flat(ev'.made), m)]_vars

\* C5: every entry of a visibility batch is handled by a closure whose
\* loading flag is the caller's loading state at that moment.
C5_GuardIsCurrent ==
  IsBatch => \A i \in 1..Len(ev.entries) : ev.flags[i] = observer.isLoading

\* C6: a size-change event with direction "up" leaves the scroll offset at
\* the offset before the event plus (newExtent - previousExtent).
C6_UpAddsDelta ==
  (IsResize /\ props.direction = "up") =>
    scrollTop = ev.top + (scrollHeight - ev.prev)

\* Previous extent 1000, new extent 1400: the offset grew by 400 from an
\* offset that was not 0.
C6_Witness ==
  /\ IsResize
  /\ props.direction = "up"
  /\ ev.prev = 1000
  /\ scrollHeight = 1400
  /\ ev.top # 0
  /\ scrollTop = ev.top + 400

\* C7: a size-change event with direction "down" leaves the scroll offset at
\* -(newExtent - previousExtent), whatever the offset was before.
C7_DownSetsMinusDelta ==
  (IsResize /\ props.direction = "down") =>
    scrollTop = 0 - (scrollHeight - ev.prev)

\* Previous extent 1000, new extent 1400, from an offset that was not 0: the
\* offset is -400.
C7_Witness ==
  /\ IsResize
  /\ props.direction = "down"
  /\ ev.prev = 1000
  /\ scrollHeight = 1400
  /\ ev.top # 0
  /\ scrollTop = -400

\* The jump: a size-change event with direction "middle" whose cursor item is
\* rendered.
Jump ==
  /\ IsResize
  /\ props.direction = "middle"
  /\ props.cursor \in props.messages

\* A settle timer has fired and left the caller's loading flag false.
Released == ev.kind = "timer" /\ ~callerLoading

\* C8: the jump leaves the cursor item at the viewport centre and is always
\* eventually followed by a settle timer firing that leaves the loading flag
\* false.
C8_JumpSettles ==
  /\ [](Jump => centred = props.cursor)
  /\ (Jump ~> Released)

\* A settle timer released a loading flag while the item of the jump was
\* still at the centre.
C8_Witness ==
  /\ Released
  /\ centred # NoCursor
  /\ centred = props.cursor
  /\ props.direction = "middle"

\* C9: a size-change event with direction "middle" whose cursor item is not
\* rendered changes neither the scroll offset nor the pending timers nor the
\* loading flag.
C9_MissingCursorNoOp ==
  [][(ev'.kind = "resize" /\ ev'.mounted /\ props.direction = "middle"
        /\ props.cursor \notin props.messages)
       => UNCHANGED <<scrollTop, timers, callerLoading, props, centred>>]_vars

\* Such an event was handled while the caller's flag was true and items
\* other than the cursor's were rendered; the flag is still true and no timer
\* is pending.
C9_Witness ==
  /\ IsResize
  /\ props.direction = "middle"
  /\ props.cursor \notin props.messages
  /\ callerLoading
  /\ timers = 0
  /\ scrollTop = ev.top

\* C10: every size-change event handled with the container mounted leaves
\* the previous-size snapshot equal to the extent it read, and no other step
\* changes the snapshot.
C10_SnapshotRecorded ==
  [][/\ (ev'.kind = "resize" /\ ev'.mounted) => prevScrollHeightRef' = scrollHeight
     /\ ~(ev'.kind = "resize" /\ ev'.mounted)
          => prevScrollHeightRef' = prevScrollHeightRef]_vars

\* A "middle" event that found no cursor item recorded a new extent.
C10_Witness ==
  /\ IsResize
  /\ props.direction = "middle"
  /\ props.cursor \notin props.messages
  /\ prevScrollHeightRef = scrollHeight
  /\ ev.prev # scrollHeight

\* The Search Highlighter's revert ran in the last step.
Reverted == ev.kind \in {"render", "cleanup"} /\ "hl" \in ev.disposed

\* The element holds a highlight span.
Highlighted(nodes) == \E i \in 1..Len(nodes) : nodes[i].depth > 0

\* C11: when the query, the matched ids or the items change, or the component
\* is unmounted, every element highlighted by the previous pass that is still
\* rendered has its content restored to its plain text (the text the item
\* was rendered with) before the next pass starts.
C11_Restored ==
  [][Reverted' =>
       \A id \in props.messages \cap props'.messages :
         Highlighted(content[id]) => ev'.before[id] = PlainText(text[id])]_vars


\* The Search Highlighter effect ran in the last render.
Pass == ev.kind = "render" /\ ev.pass

\* s contains q when case is ignored.
ContainsIgnoringCase(s, q) ==
  \E i \in 1..(Len(s) - Len(q) + 1) :
    \A j \in 1..Len(q) : LowerChar(s[i + j - 1]) = LowerChar(q[j])

\* C12: a pass that runs with an empty query, an empty set of matched ids or
\* without the container changes no content and registers no revert; in any
\* pass a matched id whose element is not rendered, has no text, or has text
\* that does not contain the query (case ignored) keeps its content.
C12_SkippedPassInert ==
  Pass =>
    /\ (search.searchQuery = << >> \/ search.searchedMessageIds = {} \/ ~ev.mounted)
         => (content = ev.before /\ highlighter = NoCleanup)
    /\ \A id \in search.searchedMessageIds :
         (\/ id \notin props.messages
          \/ TextContent(ev.before[id]) = << >>
          \/ ~ContainsIgnoringCase(TextContent(ev.before[id]), search.searchQuery))
           => content[id] = ev.before[id]

\* A pass ran with a query and a matched item whose text does not contain
\* it: the revert is registered and the item's content is as it was.
C12_Witness ==
  /\ Pass
  /\ highlighter # NoCleanup
  /\ \E id \in search.searchedMessageIds \cap props.messages :
       /\ TextContent(ev.before[id]) # << >>
       /\ ~ContainsIgnoringCase(TextContent(ev.before[id]), search.searchQuery)
       /\ content[id] = ev.before[id]


\* C13: a pass leaves an element whose text contains the query (case ignored)
\* with that text cut into segments: every occurrence of the query is a
\* segment inside a highlight span, every other segment is plain and holds no
\* occurrence, and the segments put together are the text as it was,
\* character for character.
C13_OccurrencesWrapped ==
  (Pass /\ search.searchQuery # << >>) =>
    \A id \in search.searchedMessageIds \cap props.messages :
      (/\ TextContent(ev.before[id]) # << >>
       /\ ContainsIgnoringCase(TextContent(ev.before[id]), search.searchQuery))
        => /\ TextContent(content[id]) = TextContent(ev.before[id])
           /\ \A i \in 1..Len(content[id]) :
                LET node == content[id][i]
                IN  IF node.depth > 0
                    THEN ToLowerCase(node.t) = ToLowerCase(search.searchQuery)
                    ELSE ~ContainsIgnoringCase(node.t, search.searchQuery)


\* C14 as stated: once a watcher has been torn down no callback registered
\* under its closure runs again: every visibility batch and every size-change
\* event is handled by a live watcher whose closure is that of the latest
\* render, and no settle timer fires once the size watcher that scheduled it
\* has been torn down.
C14_NothingAfterTearDown ==
  [][/\ ev'.kind = "batch" =>
          (observer # NoObserver /\ observer = NewObserver(props, TRUE))
     /\ ev'.kind = "resize" =>
          (resizeObserver # NoObserver /\ resizeObserver = NewResizeObserver(props, TRUE))
     /\ "ro" \in ev.disposed => ev'.kind # "timer"]_vars

\* C14, amended: once a watcher has been torn down no observer callback of it
\* runs again: every visibility batch and every size-change event is handled
\* by a live watcher whose closure is that of the latest render.  The
\* tear-down of the size watcher leaves the pending settle timers pending.
C14_NoObserverCallbackAfterTearDown ==
  [][/\ ev'.kind = "batch" =>
          (observer # NoObserver /\ observer = NewObserver(props, TRUE))
     /\ ev'.kind = "resize" =>
          (resizeObserver # NoObserver /\ resizeObserver = NewResizeObserver(props, TRUE))
     /\ "ro" \in ev'.disposed => timers' = timers]_vars

\* The component was unmounted and its watchers torn down with a settle timer
\* pending; the timer has fired and released the loading flag.
C14_Witness ==
  /\ ev.kind = "timer"
  /\ resizeObserver = NoObserver
  /\ observer = NoObserver
  /\ ev.set = <<FALSE>>


\* The fetch-availability flag of a marker in the props of the last render.
Flag(m) == IF m = TopId THEN props.isTopFetchMore ELSE props.isBottomFetchMore

\* C15: a marker is in the document only if its flag is true, and the live
\* watcher observes exactly the markers whose flag is true: a marker whose
\* flag is false is not observed, has no entry in a batch and has no load
\* callback called; with both flags false the watcher is registered and
\* observes nothing.
C15_FlagsGateMarkers ==
  /\ \A m \in Markers : visible[m] => Flag(m)
  /\ observer # NoObserver => \A m \in Markers : m \in observer.targets <=> Flag(m)
  /\ IsBatch =>
       /\ \A i \in 1..Len(ev.entries) : Flag(ev.entries[i].target)
       /\ \A m \in Markers : Called(Calls, m) => Flag(m)

\* A load callback was called and its fetch is outstanding; both flags are
\* false now, and the watcher registered by the last render observes nothing.
C15_Witness ==
  /\ scrollRefCurrent
  /\ observer # NoObserver
  /\ observer.targets = {}
  /\ ~props.isTopFetchMore
  /\ ~props.isBottomFetchMore
  /\ TotalFetching(fetching) > 0


\* C16: the scroll offset is written only by the size-change handler of the
\* Reflow Compensator: a visibility batch, a settle
\* timer firing, a render with its registrations, tear-downs and highlighting
\* pass, the unmount and the clean-ups leave it as it was.
C16_OffsetFrame ==
  [][ev'.kind \in {"batch", "timer", "render", "cleanup", "other"}
       => scrollTop' = scrollTop]_vars

\* A render reverted one highlighting pass and ran the next while the offset
\* was where a size-change event had put it and a settle timer was pending.
C16_Witness ==
  /\ Pass
  /\ "hl" \in ev.disposed
  /\ highlighter # NoCleanup
  /\ scrollTop # 0
  /\ timers > 0


\* The first size-change event of a size watcher created again by the
\* render before it, handled with the container mounted.
FirstOfRecreated == IsResize /\ ev.recreated

\* C17 as stated: the previous-size snapshot is reset when the size watcher
\* is torn down and created again: the first event of the new watcher
\* computes its delta from the initial value 0.
C17_SnapshotReset ==
  (FirstOfRecreated /\ props.direction = "up") =>
    scrollTop = ev.top + (scrollHeight - 0)

\* C17, amended: the previous-size snapshot is kept when the size watcher is
\* torn down and created again: the first event of the new watcher computes
\* its delta from the extent recorded by the last event of the disposed
\* watcher (0 if there was none).
C17_SnapshotKept ==
  (FirstOfRecreated /\ props.direction = "up") =>
    scrollTop = ev.top + (scrollHeight - ev.prev)

\* The disposed watcher had recorded 1000; the new watcher's first event read
\* 1400 and moved the offset by 400.
C17_Witness ==
  /\ FirstOfRecreated
  /\ props.direction = "up"
  /\ ev.prev = 1000
  /\ scrollHeight = 1400
  /\ scrollTop = ev.top + 400


\* C18: a settle timer is never cancelled: every jump adds a pending timer to
\* those already pending, no step other than a firing takes one away, each
\* firing calls setIsLoading(false), and while a timer is pending a firing
\* always follows -- also after the size watcher was created again or
\* torn down and while the caller's flag is true.
C18_TimersRace ==
  /\ [][/\ (ev'.kind = "resize" /\ ev'.mounted /\ props.direction = "middle"
             /\ props.cursor \in props.messages) => timers' = timers + 1
        /\ ev'.kind # "timer" => timers' >= timers
        /\ ev'.kind = "timer" =>
             (timers' = timers - 1 /\ ev'.set = <<FALSE>> /\ ~callerLoading')]_vars
  /\ ((timers > 0 /\ "ro" \in ev.disposed /\ callerLoading)
        ~> (ev.kind = "timer" /\ ~callerLoading))
  /\ ((timers > 1) ~> (ev.kind = "timer"))

\* A second jump was handled before the timer of the first had fired: two
\* timers are pending.
C18_Witness ==
  /\ Jump
  /\ timers = 2
  /\ callerLoading


\* C19: a size-change event delivered while the container is absent changes
\* neither the scroll offset nor the previous-size snapshot nor the loading
\* flag and schedules no timer; a visibility batch delivered while the
\* container is absent calls no load callback.
C19_AbsentContainerNoOp ==
  [][/\ (ev'.kind = "resize" /\ ~ev'.mounted) =>
          (/\ UNCHANGED <<scrollTop, prevScrollHeightRef, callerLoading, timers>>
           /\ ev'.set = << >>)
     /\ (ev'.kind = "batch" /\ ~ev'.mounted) =>
          (Flat(ev'.made) = NoCalls /\ fetching' = fetching)]_vars

\* A size-change event was delivered after the unmount, with direction
\* "middle", the cursor item among the items and an extent other than the
\* snapshot: nothing was scheduled and the snapshot is as it was.
C19_Witness ==
  /\ ev.kind = "resize"
  /\ ~ev.mounted
  /\ props.direction = "middle"
  /\ props.cursor \in props.messages
  /\ prevScrollHeightRef # scrollHeight
  /\ timers = 0

\* C20: the component calls setIsLoading only from a settle timer and only
\* with false: a visibility batch changes the caller's flag only through a
\* load callback, a render with its highlighting pass, a clean-up and a
\* size-change event of any direction leave it as it was, and a timer is
\* scheduled only by a "middle" event that finds the cursor item.
C20_OnlySettleReleases ==
  [][/\ ev'.set # << >> => (ev'.kind = "timer" /\ ev'.set = <<FALSE>>)
     /\ ev'.kind = "timer" => ~callerLoading'
     /\ ev'.kind \in {"resize", "render", "cleanup", "other"}
          => callerLoading' = callerLoading
     /\ (ev'.kind = "batch" /\ Flat(ev'.made) = NoCalls)
          => callerLoading' = callerLoading
     /\ timers' > timers =>
          (/\ ev'.kind = "resize"
           /\ ev'.mounted
           /\ props.direction = "middle"
           /\ props.cursor \in props.messages)]_vars

\* The caller's flag was true when a size-change event of direction "up"
\* moved the offset; the flag is still true and no timer is pending.
C20_Witness ==
  /\ IsResize
  /\ props.direction = "up"
  /\ scrollTop # ev.top
  /\ callerLoading
  /\ timers = 0
  /\ search.searchQuery # << >>

====
